---- MODULE Spec2Model ----
(***************************************************************************)
(* A model of app.py, the NBA analytics dashboard.  One run of the script  *)
(* is one page render: load_data (memoized by st.cache_data), the cleaning *)
(* of games and game_details, the derived tables, the page layout and the  *)
(* six tabs.  The script is run again from the top on every render.        *)
(*                                                                         *)
(* Tables are sequences of rows (records).  A cell of a column that        *)
(* read_csv could not type is a string, held as a sequence of characters;  *)
(* a typed cell is a number; a missing cell is NaN.  Numbers are exact     *)
(* rationals n/d in lowest terms (Python floats are not modelled).         *)
(***************************************************************************)
EXTENDS Integers, Sequences, FiniteSets, TLC

VARIABLES
    disk_files,     \* the input files present in the working directory
    zip_members,    \* the CSV members present inside their archives
    csv,            \* the contents of the five inputs, as read_csv returns them
    cache,          \* st.cache_data's store for load_data: {} or one entry
    reads,          \* how many times each input file has been opened and read
    renders,        \* script runs started so far
    pc,             \* position of the current script run
    players, teams, games, game_details, ranking,   \* the module globals
    season_trend, player_stats, home_away_long, conf_trend,
    season, team_scores, ranking_table,
    views,          \* what the current run has put on the page
    first_loaded,   \* history: the tables as load_data first returned them
    first_derived   \* history: the derived tables of the first complete run

vars == <<disk_files, zip_members, csv, cache, reads, renders, pc,
          players, teams, games, game_details, ranking,
          season_trend, player_stats, home_away_long, conf_trend,
          season, team_scores, ranking_table, views,
          first_loaded, first_derived>>

(***************************************************************************)
(* Bounds of the model.                                                    *)
(***************************************************************************)
MaxRenders == 2     \* script runs per behaviour
MaxGames == 2       \* rows of games.csv
MaxDetails == 2     \* rows of games_details.csv
MaxRanking == 3     \* rows of ranking.csv
MaxLen == 3         \* characters of a MIN string

(***************************************************************************)
(* Numbers and cells.                                                      *)
(***************************************************************************)
RECURSIVE GCD(_, _)
GCD(a, b) == IF b = 0 THEN a ELSE GCD(b, a % b)

\* the rational n/d (d > 0, n >= 0) in lowest terms, as a numeric cell
Rat(n, d) ==
    LET g == GCD(n, d)
    IN  [k |-> "num", s |-> <<>>, n |-> n \div g, d |-> d \div g]

Num(v) == Rat(v, 1)
NaN == [k |-> "nan", s |-> <<>>, n |-> 0, d |-> 1]
Str(chars) == [k |-> "str", s |-> chars, n |-> 0, d |-> 1]
Raised == [k |-> "raise", s |-> <<>>, n |-> 0, d |-> 1]

isna(x) == x.k = "nan"

\* x + y on floats: NaN propagates
Add(x, y) ==
    IF isna(x) \/ isna(y) THEN NaN
    ELSE Rat(x.n * y.d + y.n * x.d, x.d * y.d)

\* x / c for an integer c > 0
DivInt(x, c) == IF isna(x) THEN NaN ELSE Rat(x.n, x.d * c)

Digits == {"0", "1", "2", "3", "4", "5", "6", "7", "8", "9"}

DigitValue(c) ==
    CASE c = "0" -> 0 [] c = "1" -> 1 [] c = "2" -> 2 [] c = "3" -> 3
      [] c = "4" -> 4 [] c = "5" -> 5 [] c = "6" -> 6 [] c = "7" -> 7
      [] c = "8" -> 8 [] c = "9" -> 9

\* the strings the model draws hold digits, letters and colons only; of
\* those, float() and to_numeric accept exactly the non-empty digit strings
IsDecimal(chars) ==
    /\ Len(chars) > 0
    /\ \A i \in 1..Len(chars) : chars[i] \in Digits

RECURSIVE DecimalValue(_)
DecimalValue(chars) ==
    IF chars = <<>> THEN 0
    ELSE 10 * DecimalValue(SubSeq(chars, 1, Len(chars) - 1))
           + DigitValue(chars[Len(chars)])

\* str.split(':'): the pieces between the colons, all of them
RECURSIVE split(_, _)
split(chars, sep) ==
    IF \A i \in 1..Len(chars) : chars[i] # sep THEN <<chars>>
    ELSE LET i == CHOOSE j \in 1..Len(chars) :
                      /\ chars[j] = sep
                      /\ \A h \in 1..(j - 1) : chars[h] # sep
         IN  <<SubSeq(chars, 1, i - 1)>>
               \o split(SubSeq(chars, i + 1, Len(chars)), sep)

\* pd.to_numeric(x, errors='coerce') on one cell
to_numeric(x) ==
    IF x.k = "str"
    THEN IF IsDecimal(x.s) THEN Num(DecimalValue(x.s)) ELSE NaN
    ELSE x

\* float(x) on a string: the number, or Raised for ValueError
float(chars) ==
    IF IsDecimal(chars) THEN Num(DecimalValue(chars)) ELSE Raised

\* convert_minutes with s / 100 in place of s / 60
convert_minutes_decimal(x) ==
    IF x.k = "str" /\ \E i \in 1..Len(x.s) : x.s[i] = ":"
    THEN LET parts == split(x.s, ":")
         IN  IF Len(parts) # 2 THEN Raised
             ELSE IF float(parts[1]) = Raised \/ float(parts[2]) = Raised
                  THEN Raised
                  ELSE Add(float(parts[1]), DivInt(float(parts[2]), 100))
    ELSE to_numeric(x)

\* convert_minutes: "m, s = x.split(':')" raises unless there are exactly
\* two pieces, and float() raises on a piece that is not a number
convert_minutes(x) ==
    IF x.k = "str" /\ \E i \in 1..Len(x.s) : x.s[i] = ":"
    THEN LET parts == split(x.s, ":")
         IN  IF Len(parts) # 2 THEN Raised
             ELSE IF float(parts[1]) = Raised \/ float(parts[2]) = Raised
                  THEN Raised
                  ELSE Add(float(parts[1]), DivInt(float(parts[2]), 60))
    ELSE to_numeric(x)

(***************************************************************************)
(* Table helpers: the pandas operations the script uses.                   *)
(***************************************************************************)
Column(t, f) == [i \in 1..Len(t) |-> t[i][f]]

Values(t, f) == {t[i][f] : i \in 1..Len(t)}

Where(t, f, v) == SelectSeq(t, LAMBDA r : r[f] = v)

RECURSIVE Flatten(_)
Flatten(ss) == IF ss = <<>> THEN <<>> ELSE Head(ss) \o Flatten(Tail(ss))

\* the members of a finite set of integers in ascending order (groupby and
\* sorted() both order their keys ascending)
RECURSIVE Ascending(_)
Ascending(S) ==
    IF S = {} THEN <<>>
    ELSE LET m == CHOOSE x \in S : \A y \in S : x <= y
         IN  <<m>> \o Ascending(S \ {m})

RECURSIVE SumCells(_)
SumCells(cells) ==
    IF cells = <<>> THEN Num(0) ELSE Add(Head(cells), SumCells(Tail(cells)))

\* Series.mean(): the mean of the non-null cells, NaN when there are none
mean(cells) ==
    LET present == SelectSeq(cells, LAMBDA c : ~isna(c))
    IN  IF present = <<>> THEN NaN
        ELSE DivInt(SumCells(present), Len(present))

\* DataFrame.drop_duplicates(): the first occurrence of each row is kept
RECURSIVE drop_duplicates(_)
drop_duplicates(t) ==
    IF t = <<>> THEN <<>>
    ELSE LET front == SubSeq(t, 1, Len(t) - 1)
             last == t[Len(t)]
         IN  IF \E i \in 1..Len(front) : front[i] = last
             THEN drop_duplicates(front)
             ELSE Append(drop_duplicates(front), last)

(***************************************************************************)
(* 3. DATA CLEANING                                                        *)
(***************************************************************************)
\* games['PTS_home'], games['PTS_away'] = pd.to_numeric(..., errors='coerce')
coerce_games(t) ==
    [i \in 1..Len(t) |->
        [t[i] EXCEPT !.PTS_home = to_numeric(@), !.PTS_away = to_numeric(@)]]

\* dropna that looks at PTS_home only
dropna_games_home_only(t) == SelectSeq(t, LAMBDA r : ~isna(r.PTS_home))

\* games.dropna(subset=['PTS_home', 'PTS_away'], inplace=True)
dropna_games(t) ==
    SelectSeq(t, LAMBDA r : ~isna(r.PTS_home) /\ ~isna(r.PTS_away))

\* for col in ['PTS', 'AST', 'REB']: game_details[col] = pd.to_numeric(...)
coerce_game_details(t) ==
    [i \in 1..Len(t) |->
        [t[i] EXCEPT !.PTS = to_numeric(@), !.AST = to_numeric(@),
                     !.REB = to_numeric(@)]]

\* game_details['MIN'].apply(convert_minutes): raises when any cell does
apply_raises(t) == \E i \in 1..Len(t) : convert_minutes(t[i].MIN) = Raised

apply_convert_minutes(t) ==
    [i \in 1..Len(t) |-> [t[i] EXCEPT !.MIN = convert_minutes(@)]]

\* game_details.dropna(subset=['MIN'], inplace=True)
dropna_game_details(t) == SelectSeq(t, LAMBDA r : ~isna(r.MIN))

(***************************************************************************)
(* 4. FEATURE ENGINEERING                                                  *)
(***************************************************************************)
\* games['TOTAL_POINTS'] = games['PTS_home'] + games['PTS_away']
add_total_points(t) ==
    [i \in 1..Len(t) |->
        [f \in DOMAIN t[i] \cup {"TOTAL_POINTS"} |->
            IF f = "TOTAL_POINTS" THEN Add(t[i].PTS_home, t[i].PTS_away)
            ELSE t[i][f]]]

\* a season trend that averages the home points only
season_trend_home_only(g) ==
    LET ks == Ascending(Values(g, "SEASON"))
    IN  [j \in 1..Len(ks) |->
            [SEASON |-> ks[j],
             TOTAL_POINTS |-> mean(Column(Where(g, "SEASON", ks[j]), "PTS_home"))]]

\* games.groupby("SEASON", as_index=False)['TOTAL_POINTS'].mean()
season_trend_of(g) ==
    LET ks == Ascending(Values(g, "SEASON"))
    IN  [j \in 1..Len(ks) |->
            [SEASON |-> ks[j],
             TOTAL_POINTS |-> mean(Column(Where(g, "SEASON", ks[j]), "TOTAL_POINTS"))]]

\* game_details.groupby("PLAYER_ID", as_index=False).agg({... "mean"})
player_means(gd) ==
    LET ks == Ascending(Values(gd, "PLAYER_ID"))
    IN  [j \in 1..Len(ks) |->
            LET grp == Where(gd, "PLAYER_ID", ks[j])
            IN  [PLAYER_ID |-> ks[j],
                 PTS |-> mean(Column(grp, "PTS")),
                 AST |-> mean(Column(grp, "AST")),
                 REB |-> mean(Column(grp, "REB")),
                 MIN |-> mean(Column(grp, "MIN"))]]

\* a left join: every left row is kept, with a null name when unmatched
merge_players_left(left, right) ==
    Flatten([i \in 1..Len(left) |->
        LET m == Where(right, "PLAYER_ID", left[i].PLAYER_ID)
        IN  IF m = <<>> THEN <<left[i] @@ [PLAYER_NAME |-> "<NA>"]>>
            ELSE [j \in 1..Len(m) |-> left[i] @@ m[j]]])

\* .merge(players, on="PLAYER_ID"): an inner join, one output row for each
\* pair of a left row and a right row with the same PLAYER_ID
merge_players(left, right) ==
    Flatten([i \in 1..Len(left) |->
        LET m == Where(right, "PLAYER_ID", left[i].PLAYER_ID)
        IN  [j \in 1..Len(m) |-> left[i] @@ m[j]]])

player_stats_of(gd, pl) == merge_players(player_means(gd), pl)

\* games.groupby("SEASON", as_index=False).agg({"PTS_home": "mean",
\* "PTS_away": "mean"})
home_away_trend_of(g) ==
    LET ks == Ascending(Values(g, "SEASON"))
    IN  [j \in 1..Len(ks) |->
            LET grp == Where(g, "SEASON", ks[j])
            IN  [SEASON |-> ks[j],
                 PTS_home |-> mean(Column(grp, "PTS_home")),
                 PTS_away |-> mean(Column(grp, "PTS_away"))]]

\* .melt(...) and the renaming of Location: the PTS_home rows of every
\* season, then the PTS_away rows
home_away_long_of(g) ==
    LET w == home_away_trend_of(g)
    IN  [j \in 1..Len(w) |->
            [SEASON |-> w[j].SEASON, Location |-> "Home",
             Average_Points |-> w[j].PTS_home]]
        \o
        [j \in 1..Len(w) |->
            [SEASON |-> w[j].SEASON, Location |-> "Away",
             Average_Points |-> w[j].PTS_away]]

\* ranking[['TEAM_ID', 'CONFERENCE', 'SEASON_ID']].drop_duplicates()
team_conf_of(rk) ==
    drop_duplicates([i \in 1..Len(rk) |->
        [TEAM_ID |-> rk[i].TEAM_ID, CONFERENCE |-> rk[i].CONFERENCE,
         SEASON_ID |-> rk[i].SEASON_ID]])

NoTeam == [TEAM_ID |-> -1, CONFERENCE |-> "<NA>", SEASON_ID |-> -1]

\* games.merge(team_conf, left_on="HOME_TEAM_ID", right_on="TEAM_ID",
\* how="left"): one row for each pair of a game and a team_conf row of its
\* home team, and one row with null team columns for an unmatched game
conf_games_of(g, rk) ==
    LET tc == team_conf_of(rk)
    IN  Flatten([i \in 1..Len(g) |->
            LET m == Where(tc, "TEAM_ID", g[i].HOME_TEAM_ID)
            IN  IF m = <<>> THEN <<g[i] @@ NoTeam>>
                ELSE [j \in 1..Len(m) |-> g[i] @@ m[j]]])

\* the order groupby gives the CONFERENCE keys
ConferenceOrder == <<"East", "West">>

\* conf_games.groupby(["SEASON", "CONFERENCE"], as_index=False)['PTS_home']
\* .mean(): rows with a null CONFERENCE are in no group
conf_trend_of(g, rk) ==
    LET cg == conf_games_of(g, rk)
        ks == Ascending(Values(cg, "SEASON"))
    IN  Flatten([j \in 1..Len(ks) |->
            Flatten([c \in 1..Len(ConferenceOrder) |->
                LET grp == SelectSeq(cg, LAMBDA r :
                               r.SEASON = ks[j] /\ r.CONFERENCE = ConferenceOrder[c])
                IN  IF grp = <<>> THEN <<>>
                    ELSE <<[SEASON |-> ks[j], CONFERENCE |-> ConferenceOrder[c],
                            PTS_home |-> mean(Column(grp, "PTS_home"))]>>])])

(***************************************************************************)
(* The tabs.                                                               *)
(***************************************************************************)
\* games[games['SEASON'] == season].groupby("HOME_TEAM_ID",
\* as_index=False)['PTS_home'].mean()
team_scores_of(g, ssn) ==
    LET sel == Where(g, "SEASON", ssn)
        ks == Ascending(Values(sel, "HOME_TEAM_ID"))
    IN  [j \in 1..Len(ks) |->
            [HOME_TEAM_ID |-> ks[j],
             PTS_home |-> mean(Column(Where(sel, "HOME_TEAM_ID", ks[j]), "PTS_home"))]]

\* ranking[['TEAM_ID', 'SEASON_ID', 'W', 'L', 'W_PCT']]; a row keeps its
\* index label, the position it has in ranking
project_ranking(rk) ==
    [i \in 1..Len(rk) |->
        [index |-> i, TEAM_ID |-> rk[i].TEAM_ID, SEASON_ID |-> rk[i].SEASON_ID,
         W |-> rk[i].W, L |-> rk[i].L, W_PCT |-> rk[i].W_PCT]]

\* a before b in the order of sort_values(['SEASON_ID', 'W_PCT'],
\* ascending=False)
sorts_before(a, b) ==
    \/ a.SEASON_ID > b.SEASON_ID
    \/ a.SEASON_ID = b.SEASON_ID /\ a.W_PCT > b.W_PCT

\* an insertion that puts a row ahead of the rows it ties with
insert_unstable(sorted, r) ==
    LET n == Cardinality({i \in 1..Len(sorted) : sorts_before(sorted[i], r)})
    IN  SubSeq(sorted, 1, n) \o <<r>> \o SubSeq(sorted, n + 1, Len(sorted))

\* the place of a row among the rows sorted so far: after every row that
\* sorts before it or ties with it (the multi-column sort is a stable one)
insert_sorted(sorted, r) ==
    LET n == Cardinality({i \in 1..Len(sorted) : ~sorts_before(r, sorted[i])})
    IN  SubSeq(sorted, 1, n) \o <<r>> \o SubSeq(sorted, n + 1, Len(sorted))

RECURSIVE sort_values(_)
sort_values(t) ==
    IF t = <<>> THEN <<>>
    ELSE insert_sorted(sort_values(SubSeq(t, 1, Len(t) - 1)), t[Len(t)])

ranking_table_of(rk) == sort_values(project_ranking(rk))

(***************************************************************************)
(* 2. LOAD DATA                                                            *)
(***************************************************************************)
\* the reads of load_data, in the order the body makes them
LoadOrder == <<"players.csv", "teams.csv", "games.csv.zip",
               "games_details.csv.zip", "ranking.csv.zip">>

Files == {LoadOrder[i] : i \in 1..Len(LoadOrder)}

Members == {"games.csv", "games_details.csv", "ranking.csv"}

Archives == {"games.csv.zip", "games_details.csv.zip", "ranking.csv.zip"}

\* z.open(<member>): the member each archive is asked for
MemberOf(f) ==
    CASE f = "games.csv.zip" -> "games.csv"
      [] f = "games_details.csv.zip" -> "games_details.csv"
      [] f = "ranking.csv.zip" -> "ranking.csv"

\* a read that only needs the archive to exist
read_ok_archive_only(f) == f \in disk_files

\* pd.read_csv(path) / ZipFile(path) + z.open(member): FileNotFoundError
\* without the file, KeyError without the member
read_ok(f) ==
    /\ f \in disk_files
    /\ f \in Archives => MemberOf(f) \in zip_members

\* the position in LoadOrder of the first read that raises (one past the
\* end when none does)
FirstFailure ==
    LET bad == {i \in 1..Len(LoadOrder) : ~read_ok(LoadOrder[i])}
    IN  IF bad = {} THEN Len(LoadOrder) + 1
        ELSE CHOOSE i \in bad : \A j \in bad : i <= j

\* the files one execution of the body opens: those before the failing
\* read, and the failing archive itself when it exists but lacks its member
Position(f) == CHOOSE i \in 1..Len(LoadOrder) : LoadOrder[i] = f

reads_after_body ==
    [f \in Files |->
        IF \/ Position(f) < FirstFailure
           \/ Position(f) = FirstFailure /\ f \in disk_files
        THEN reads[f] + 1 ELSE reads[f]]

\* return players, teams, games, game_details, ranking
loaded_tables ==
    [players |-> csv.players, teams |-> csv.teams, games |-> csv.games,
     game_details |-> csv.game_details, ranking |-> csv.ranking]

\* a load_data without the decorator: no call finds a memoized result
cached_never(c) == FALSE

\* @st.cache_data: the call finds a memoized result (the key is the empty
\* argument list, so the store holds at most one entry)
cached(c) == c # {}

\* a store that hands out the object it holds (st.cache_resource): an
\* in-place change of the caller's table is a change of the stored one
store_shared(c, name, t) == {[e EXCEPT ![name] = t] : e \in c}

\* @st.cache_data keeps the pickled return value and hands every caller a
\* fresh copy: the store after the caller has changed table `name` to t
store_after_inplace(c, name, t) == c

NoSeason == -1

\* the start of a script run: every global of the previous run is gone
FreshRun ==
    /\ season_trend' = <<>>
    /\ player_stats' = <<>>
    /\ home_away_long' = <<>>
    /\ conf_trend' = <<>>
    /\ season' = NoSeason
    /\ team_scores' = <<>>
    /\ ranking_table' = <<>>
    /\ views' = {}

CanRun == pc \in {"start", "done", "aborted"} /\ renders < MaxRenders

\* line 31 of a run whose load_data call executes the body to the end
LoadDataMiss ==
    /\ CanRun
    /\ ~cached(cache)
    /\ FirstFailure > Len(LoadOrder)
    /\ renders' = renders + 1
    /\ reads' = reads_after_body
    /\ cache' = {loaded_tables}
    /\ first_loaded' = IF first_loaded = {} THEN {loaded_tables} ELSE first_loaded
    /\ players' = loaded_tables.players
    /\ teams' = loaded_tables.teams
    /\ games' = loaded_tables.games
    /\ game_details' = loaded_tables.game_details
    /\ ranking' = loaded_tables.ranking
    /\ FreshRun
    /\ pc' = "clean_games"
    /\ UNCHANGED <<disk_files, zip_members, csv, first_derived>>

\* line 31 of a run whose load_data call raises: nothing is memoized and
\* the run ends with the exception
LoadDataRaise ==
    /\ CanRun
    /\ ~cached(cache)
    /\ FirstFailure <= Len(LoadOrder)
    /\ renders' = renders + 1
    /\ reads' = reads_after_body
    /\ players' = <<>>
    /\ teams' = <<>>
    /\ games' = <<>>
    /\ game_details' = <<>>
    /\ ranking' = <<>>
    /\ FreshRun
    /\ pc' = "aborted"
    /\ UNCHANGED <<disk_files, zip_members, csv, cache, first_loaded, first_derived>>

\* line 31 of a run whose load_data call finds the memoized result
LoadDataHit ==
    /\ CanRun
    /\ cached(cache)
    /\ renders' = renders + 1
    /\ \E e \in cache :
        /\ players' = e.players
        /\ teams' = e.teams
        /\ games' = e.games
        /\ game_details' = e.game_details
        /\ ranking' = e.ranking
    /\ FreshRun
    /\ pc' = "clean_games"
    /\ UNCHANGED <<disk_files, zip_members, csv, cache, reads,
                   first_loaded, first_derived>>

\* lines 37-39
CleanGames ==
    /\ pc = "clean_games"
    /\ games' = dropna_games(coerce_games(games))
    /\ cache' = store_after_inplace(cache, "games", games')
    /\ pc' = "clean_game_details"
    /\ UNCHANGED <<disk_files, zip_members, csv, reads, renders,
                   players, teams, game_details, ranking,
                   season_trend, player_stats, home_away_long, conf_trend,
                   season, team_scores, ranking_table, views,
                   first_loaded, first_derived>>

\* lines 41-51 when no MIN cell raises
CleanGameDetails ==
    /\ pc = "clean_game_details"
    /\ ~apply_raises(coerce_game_details(game_details))
    /\ game_details' =
           dropna_game_details(apply_convert_minutes(coerce_game_details(game_details)))
    /\ cache' = store_after_inplace(cache, "game_details", game_details')
    /\ pc' = "features"
    /\ UNCHANGED <<disk_files, zip_members, csv, reads, renders,
                   players, teams, games, ranking,
                   season_trend, player_stats, home_away_long, conf_trend,
                   season, team_scores, ranking_table, views,
                   first_loaded, first_derived>>

\* lines 41-50 when a MIN cell raises: PTS, AST and REB are already
\* coerced, MIN is not assigned, and the run ends with the ValueError
CleanGameDetailsRaise ==
    /\ pc = "clean_game_details"
    /\ apply_raises(coerce_game_details(game_details))
    /\ game_details' = coerce_game_details(game_details)
    /\ cache' = store_after_inplace(cache, "game_details", game_details')
    /\ pc' = "aborted"
    /\ UNCHANGED <<disk_files, zip_members, csv, reads, renders,
                   players, teams, games, ranking,
                   season_trend, player_stats, home_away_long, conf_trend,
                   season, team_scores, ranking_table, views,
                   first_loaded, first_derived>>

\* lines 59-113
FeatureEngineering ==
    /\ pc = "features"
    /\ games' = add_total_points(games)
    /\ cache' = store_after_inplace(cache, "games", games')
    /\ season_trend' = season_trend_of(games')
    /\ player_stats' = player_stats_of(game_details, players)
    /\ home_away_long' = home_away_long_of(games')
    /\ conf_trend' = conf_trend_of(games', ranking)
    /\ pc' = "layout"
    /\ UNCHANGED <<disk_files, zip_members, csv, reads, renders,
                   players, teams, game_details, ranking,
                   season, team_scores, ranking_table, views,
                   first_loaded, first_derived>>

\* lines 119-129
DashboardLayout ==
    /\ pc = "layout"
    /\ views' = views \cup {"page_config", "title", "tabs"}
    /\ pc' = "tabs"
    /\ UNCHANGED <<disk_files, zip_members, csv, cache, reads, renders,
                   players, teams, games, game_details, ranking,
                   season_trend, player_stats, home_away_long, conf_trend,
                   season, team_scores, ranking_table,
                   first_loaded, first_derived>>

derived_tables ==
    [games |-> games, game_details |-> game_details,
     season_trend |-> season_trend, player_stats |-> player_stats,
     home_away_long |-> home_away_long, conf_trend |-> conf_trend,
     ranking_table |-> ranking_table]

\* lines 135-232: the six tabs and the success banner; the selector of
\* tab 2 holds one of sorted(games['SEASON'].unique()), or None when
\* there is no option
RenderTabs ==
    /\ pc = "tabs"
    /\ \E ssn \in Values(games, "SEASON") \cup {NoSeason} :
        /\ ssn = NoSeason <=> games = <<>>
        /\ season' = ssn
        /\ team_scores' = team_scores_of(games, ssn)
    /\ ranking_table' = ranking_table_of(ranking)
    /\ views' = views \cup {"season_trend_chart", "team_chart", "player_chart",
                            "home_away_chart", "conference_chart",
                            "ranking_dataframe", "success"}
    /\ first_derived' =
           IF first_derived = {}
           THEN {[derived_tables EXCEPT !.ranking_table = ranking_table']}
           ELSE first_derived
    /\ pc' = "done"
    /\ UNCHANGED <<disk_files, zip_members, csv, cache, reads, renders,
                   players, teams, games, game_details, ranking,
                   season_trend, player_stats, home_away_long, conf_trend,
                   first_loaded>>

Next ==
    \/ LoadDataMiss
    \/ LoadDataRaise
    \/ LoadDataHit
    \/ CleanGames
    \/ CleanGameDetails
    \/ CleanGameDetailsRaise
    \/ FeatureEngineering
    \/ DashboardLayout
    \/ RenderTabs

(***************************************************************************)
(* The inputs.  Every specification runs the whole script; each draws the  *)
(* table its claims are about from a bounded set and takes the other       *)
(* tables from a few fixed ones.                                           *)
(***************************************************************************)
SeqsUpTo(S, n) == UNION {[1..m -> S] : m \in 0..n}

CompleteDisk == [files |-> Files, members |-> Members]

\* the complete directory, one without games.csv.zip, one whose ranking
\* archive lacks ranking.csv
SomeDisks ==
    {CompleteDisk,
     [files |-> Files \ {"games.csv.zip"}, members |-> Members \ {"games.csv"}],
     [files |-> Files, members |-> Members \ {"ranking.csv"}]}

AllDisks == [files : SUBSET Files, members : SUBSET Members]

PlayerRow(id, name) == [PLAYER_ID |-> id, PLAYER_NAME |-> name]

DefaultPlayers == <<PlayerRow(1, "A"), PlayerRow(2, "B")>>

\* player 4 has no game-details row; PLAYER_ID 1 may have two player rows
PlayersTables ==
    {<<>>, <<PlayerRow(1, "A")>>, DefaultPlayers,
     <<PlayerRow(2, "B"), PlayerRow(4, "D")>>,
     <<PlayerRow(1, "A"), PlayerRow(1, "A2")>>}

DefaultTeams == <<[TEAM_ID |-> 1], [TEAM_ID |-> 2]>>

GameRow(ssn, team, h, a) ==
    [SEASON |-> ssn, HOME_TEAM_ID |-> team, PTS_home |-> h, PTS_away |-> a]

HomeCells == {Str(<<"1", "1", "0">>), Str(<<"a", "b", "c">>)}

AwayCells == {Str(<<"1", "0", "5">>), Str(<<"9", "0">>), NaN}

GameRows ==
    {GameRow(p[1], p[2], h, a) :
        p \in {<<2019, 1>>, <<2020, 1>>, <<2020, 2>>},
        h \in HomeCells, a \in AwayCells}

GamesTables == SeqsUpTo(GameRows, MaxGames)

DefaultGames ==
    <<GameRow(2020, 1, Str(<<"1", "1", "0">>), Str(<<"1", "0", "5">>)),
      GameRow(2020, 2, Str(<<"a", "b", "c">>), Str(<<"9", "0">>))>>

OtherGames ==
    <<GameRow(2019, 1, Num(100), NaN),
      GameRow(2020, 2, Num(100), Str(<<"9", "0">>))>>

\* games with typed points: home team 3 has no ranking row
ConfGameRows ==
    {GameRow(2020, tm, Num(h), Num(90)) : tm \in {1, 2, 3}, h \in {100, 110}}

ConfGamesTables == SeqsUpTo(ConfGameRows, MaxGames)

DetailRow(id, min) ==
    [PLAYER_ID |-> id, PTS |-> Str(<<"2", "0">>), AST |-> Num(5),
     REB |-> Num(7), MIN |-> min]

MinAlphabet == {"0", "9", ":", "a"}

\* the MIN cells of the claims' examples: "12:30", "5:9", "32:15", "0:00",
\* "ab:10", "12:", "1:02:03"
ExampleMinCells ==
    {Str(<<"1", "2", ":", "3", "0">>), Str(<<"5", ":", "9">>),
     Str(<<"3", "2", ":", "1", "5">>), Str(<<"0", ":", "0", "0">>),
     Str(<<"a", "b", ":", "1", "0">>), Str(<<"1", "2", ":">>),
     Str(<<"1", ":", "0", "2", ":", "0", "3">>)}

MinCells ==
    {Str(chars) : chars \in SeqsUpTo(MinAlphabet, MaxLen)}
        \cup ExampleMinCells \cup {NaN, Num(0), Num(12)}

\* the row under test, alone or followed by a second row
MinutesTables ==
    {<<DetailRow(1, c)>> : c \in MinCells}
        \cup {<<DetailRow(1, c), DetailRow(id, Str(<<"5", ":", "9">>))>> :
                 c \in MinCells, id \in {1, 2}}
        \cup {<<DetailRow(2, NaN), DetailRow(1, c)>> : c \in MinCells}

\* "DNP" is dropped by the cleaning; PLAYER_ID 3 has no player row
PlayerDetailRows ==
    {DetailRow(id, c) :
        id \in {1, 2, 3},
        c \in {Str(<<"3", "2", ":", "1", "5">>), Str(<<"D", "N", "P">>)}}

PlayerDetailsTables == SeqsUpTo(PlayerDetailRows, MaxDetails)

DefaultDetails ==
    <<DetailRow(1, Str(<<"3", "2", ":", "1", "5">>)),
      DetailRow(2, Str(<<"D", "N", "P">>)),
      DetailRow(3, Num(12))>>

RaisingDetails ==
    <<DetailRow(1, Str(<<"3", "2", ":", "1", "5">>)),
      DetailRow(2, Str(<<"a", "b", ":", "1", "0">>))>>

\* W_PCT is held in thousandths
RankingRow(team, conf, sid, pct) ==
    [TEAM_ID |-> team, SEASON_ID |-> sid, CONFERENCE |-> conf,
     W |-> pct \div 10, L |-> 100 - pct \div 10, W_PCT |-> pct]

\* team 1 has two seasons in the East, team 2 has one
DefaultRanking ==
    <<RankingRow(1, "East", 22019, 600), RankingRow(1, "East", 22020, 400),
      RankingRow(2, "East", 22019, 400)>>

SortRankingRows ==
    {RankingRow(tm, "East", sid, pct) :
        tm \in {1, 2}, sid \in {22019, 22020}, pct \in {400, 600}}

SortRankingTables == SeqsUpTo(SortRankingRows, MaxRanking)

ConfRankingRows ==
    {RankingRow(1, "East", 22019, 600), RankingRow(1, "East", 22020, 600),
     RankingRow(2, "East", 22019, 400), RankingRow(2, "West", 22020, 400)}

ConfRankingTables == SeqsUpTo(ConfRankingRows, MaxRanking)

\* the state before the first script run
InitWith(Disks, P, G, D, R) ==
    /\ \E dk \in Disks : disk_files = dk.files /\ zip_members = dk.members
    /\ \E p \in P, g \in G, d \in D, r \in R :
           csv = [players |-> p, teams |-> DefaultTeams, games |-> g,
                  game_details |-> d, ranking |-> r]
    /\ cache = {}
    /\ reads = [f \in Files |-> 0]
    /\ renders = 0
    /\ pc = "start"
    /\ players = <<>>
    /\ teams = <<>>
    /\ games = <<>>
    /\ game_details = <<>>
    /\ ranking = <<>>
    /\ season_trend = <<>>
    /\ player_stats = <<>>
    /\ home_away_long = <<>>
    /\ conf_trend = <<>>
    /\ season = NoSeason
    /\ team_scores = <<>>
    /\ ranking_table = <<>>
    /\ views = {}
    /\ first_loaded = {}
    /\ first_derived = {}

\* the runs every specification has: a missing file, a missing member, a
\* MIN cell that raises
InitCommon ==
    InitWith(SomeDisks, {DefaultPlayers}, {DefaultGames},
             {DefaultDetails, RaisingDetails}, {DefaultRanking})

\* any directory, a few tables
Init ==
    InitWith(AllDisks, {DefaultPlayers}, {DefaultGames, OtherGames},
             {DefaultDetails, RaisingDetails}, {DefaultRanking})

InitGames ==
    \/ InitCommon
    \/ InitWith({CompleteDisk}, {DefaultPlayers}, GamesTables,
                {DefaultDetails}, {DefaultRanking})

InitConf ==
    \/ InitCommon
    \/ InitWith({CompleteDisk}, {DefaultPlayers}, ConfGamesTables,
                {DefaultDetails}, ConfRankingTables)

InitMinutes ==
    \/ InitCommon
    \/ InitWith({CompleteDisk}, {DefaultPlayers}, {DefaultGames},
                MinutesTables, {DefaultRanking})

InitPlayers ==
    \/ InitCommon
    \/ InitWith({CompleteDisk}, PlayersTables, {DefaultGames},
                PlayerDetailsTables, {DefaultRanking})

InitRanking ==
    \/ InitCommon
    \/ InitWith({CompleteDisk}, {DefaultPlayers}, {DefaultGames},
                {DefaultDetails}, SortRankingTables)

Spec == Init /\ [][Next]_vars

SpecGames == InitGames /\ [][Next]_vars

SpecConf == InitConf /\ [][Next]_vars

SpecMinutes == InitMinutes /\ [][Next]_vars

SpecPlayers == InitPlayers /\ [][Next]_vars

SpecRanking == InitRanking /\ [][Next]_vars

(***************************************************************************)
(* The claims.                                                             *)
(***************************************************************************)
AfterCleanGames == pc \in {"clean_game_details", "features"}

AfterFeatures == pc \in {"layout", "tabs", "done"}

\* the cell is a number once coerced
Coerces(x) == ~isna(to_numeric(x))

GoodGame(r) == Coerces(r.PTS_home) /\ Coerces(r.PTS_away)

\* the sum of f over the finite set S
RECURSIVE SumOver(_, _)
SumOver(S, f) ==
    IF S = {} THEN 0
    ELSE LET x == CHOOSE y \in S : TRUE IN f[x] + SumOver(S \ {x}, f)

\* C1: a games row whose PTS_home or PTS_away is missing or fails numeric
\* coercion is in no derived view built from games, and every row whose two
\* cells coerce is kept: the cleaned games table holds exactly the coercible
\* rows of games.csv, in order, and the season trend, the home-vs-away
\* trend, the conference trend and the team table of the selected season
\* are those of the coercible rows alone.
C1_BadRowsExcluded ==
    LET kept == coerce_games(SelectSeq(csv.games, GoodGame))
        keptT == add_total_points(kept)
    IN  /\ AfterCleanGames => games = kept
        /\ AfterFeatures =>
              /\ games = keptT
              /\ season_trend = season_trend_of(keptT)
              /\ home_away_long = home_away_long_of(keptT)
              /\ conf_trend = conf_trend_of(keptT, csv.ranking)
              /\ \A j \in 1..Len(season_trend) : ~isna(season_trend[j].TOTAL_POINTS)
        /\ pc = "done" =>
              /\ season \in Values(kept, "SEASON") \cup {NoSeason}
              /\ team_scores = team_scores_of(keptT, season)

C1_Witness ==
    /\ pc = "done"
    /\ \E i \in 1..Len(csv.games) : ~GoodGame(csv.games[i])
    /\ \E i \in 1..Len(csv.games) : GoodGame(csv.games[i])
    /\ Len(games) < Len(csv.games)
    /\ team_scores # <<>>

\* C4: the season trend has exactly one row for each SEASON among the
\* surviving games rows and no other row, and the TOTAL_POINTS of a row is
\* the mean of PTS_home + PTS_away over the surviving rows of its season;
\* rows (2020, "110", "105") and (2020, "abc", "90") give 215 for 2020.
C4_SeasonTrend ==
    LET raw == csv.games
        alive == {i \in 1..Len(raw) : GoodGame(raw[i])}
        total == [i \in alive |->
                     to_numeric(raw[i].PTS_home).n + to_numeric(raw[i].PTS_away).n]
        of(ssn) == {i \in alive : raw[i].SEASON = ssn}
    IN  AfterFeatures =>
          /\ {season_trend[j].SEASON : j \in 1..Len(season_trend)}
                 = {raw[i].SEASON : i \in alive}
          /\ \A i, j \in 1..Len(season_trend) :
                 season_trend[i].SEASON = season_trend[j].SEASON => i = j
          /\ \A j \in 1..Len(season_trend) :
                 LET rows == of(season_trend[j].SEASON)
                 IN  season_trend[j].TOTAL_POINTS
                         = Rat(SumOver(rows, total), Cardinality(rows))
          /\ raw = DefaultGames =>
                 season_trend = <<[SEASON |-> 2020, TOTAL_POINTS |-> Num(215)]>>

C4_Witness ==
    /\ pc = "done"
    /\ csv.games = DefaultGames
    /\ season_trend = <<[SEASON |-> 2020, TOTAL_POINTS |-> Num(215)]>>

DiskComplete == FirstFailure > Len(LoadOrder)

\* the MIN cell parses: convert_minutes yields a number
Parses(x) == convert_minutes(x).k = "num"

\* C2: a game-details MIN cell that fails to parse (also "ab:10", "12:",
\* "1:02:03") becomes null and only its row is dropped: with every input
\* file in place no run ends in an error, and the cleaned game_details holds
\* exactly the rows whose MIN parses.
C2_UnparseableMinDropped ==
    /\ DiskComplete => pc # "aborted"
    /\ pc \in {"features", "layout", "tabs", "done"} =>
           Column(game_details, "PLAYER_ID")
               = Column(SelectSeq(csv.game_details, LAMBDA r : Parses(r.MIN)),
                        "PLAYER_ID")

DigitChar(v) ==
    CASE v = 0 -> "0" [] v = 1 -> "1" [] v = 2 -> "2" [] v = 3 -> "3"
      [] v = 4 -> "4" [] v = 5 -> "5" [] v = 6 -> "6" [] v = 7 -> "7"
      [] v = 8 -> "8" [] v = 9 -> "9"

\* the decimal numeral of n >= 0
RECURSIVE Numeral(_)
Numeral(v) ==
    IF v < 10 THEN <<DigitChar(v)>>
    ELSE Numeral(v \div 10) \o <<DigitChar(v % 10)>>

\* the numerals of n that clocks write: plain and padded to two digits
Numerals(v) == {Numeral(v)} \cup (IF v < 10 THEN {<<"0">> \o Numeral(v)} ELSE {})

\* the minutes and seconds the model's MIN strings can spell
ClockValues == {0, 5, 9, 12, 15, 30, 32, 90, 99}

\* C3: for a MIN cell "m:s" with integers m, s >= 0, convert_minutes gives
\* m + s/60 ("12:30" 12.5, "5:9" 5.15, "32:15" 32.25, "0:00" 0), and the
\* row of the cell is in game_details after the row elimination, with that
\* value, also when the value is 0.
C3_ClockMinutes ==
    /\ convert_minutes(Str(<<"1", "2", ":", "3", "0">>)) = Rat(25, 2)
    /\ convert_minutes(Str(<<"5", ":", "9">>)) = Rat(515, 100)
    /\ convert_minutes(Str(<<"3", "2", ":", "1", "5">>)) = Rat(3225, 100)
    /\ \A i \in 1..Len(csv.game_details) :
         \A m \in ClockValues, s \in ClockValues :
           \A mm \in Numerals(m), ss \in Numerals(s) :
             LET row == csv.game_details[i]
             IN  row.MIN = Str(mm \o <<":">> \o ss) =>
                   /\ convert_minutes(row.MIN) = Rat(60 * m + s, 60)
                   /\ pc \in {"features", "layout", "tabs", "done"} =>
                        \E j \in 1..Len(game_details) :
                          /\ game_details[j].PLAYER_ID = row.PLAYER_ID
                          /\ game_details[j].MIN = Rat(60 * m + s, 60)
                          /\ Cardinality({h \in 1..(j - 1) :
                                 game_details[h].PLAYER_ID = row.PLAYER_ID})
                               <= Cardinality({h \in 1..(i - 1) :
                                 csv.game_details[h].PLAYER_ID = row.PLAYER_ID})

C3_Witness ==
    /\ pc = "done"
    /\ Len(csv.game_details) = 2
    /\ csv.game_details[1].MIN = Str(<<"0", ":", "0", "0">>)
    /\ Len(game_details) = 2
    /\ game_details[1].MIN = Num(0)
    /\ game_details[2].MIN = Rat(515, 100)

\* C5: player_stats is an inner join on PLAYER_ID: a PLAYER_ID is in it if
\* and only if it has a game-details row that survives the cleaning and a
\* row in players.
C5_InnerJoin ==
    AfterFeatures =>
        {player_stats[j].PLAYER_ID : j \in 1..Len(player_stats)}
            = {id \in Values(csv.game_details, "PLAYER_ID") :
                  /\ \E i \in 1..Len(csv.game_details) :
                        /\ csv.game_details[i].PLAYER_ID = id
                        /\ Parses(csv.game_details[i].MIN)
                  /\ \E i \in 1..Len(csv.players) : csv.players[i].PLAYER_ID = id}

C5_Witness ==
    /\ pc = "done"
    /\ player_stats # <<>>
    \* a player whose only row is dropped
    /\ \E i \in 1..Len(csv.game_details) :
          /\ ~Parses(csv.game_details[i].MIN)
          /\ \E h \in 1..Len(csv.players) :
                csv.players[h].PLAYER_ID = csv.game_details[i].PLAYER_ID
          /\ \A j \in 1..Len(player_stats) :
                player_stats[j].PLAYER_ID # csv.game_details[i].PLAYER_ID
    \* a surviving row of a PLAYER_ID with no player row
    /\ \E i \in 1..Len(game_details) :
          \A h \in 1..Len(csv.players) :
              csv.players[h].PLAYER_ID # game_details[i].PLAYER_ID

\* C6: the ranking leaderboard holds exactly the rows of ranking, projected,
\* ordered by SEASON_ID descending, then W_PCT descending, and rows that tie
\* on both keep their original order.
C6_RankingSorted ==
    pc = "done" =>
        /\ Len(ranking_table) = Len(csv.ranking)
        /\ {ranking_table[j].index : j \in 1..Len(ranking_table)}
               = 1..Len(csv.ranking)
        /\ \A j \in 1..Len(ranking_table) :
               LET r == csv.ranking[ranking_table[j].index]
                   q == ranking_table[j]
               IN  /\ q.TEAM_ID = r.TEAM_ID /\ q.SEASON_ID = r.SEASON_ID
                   /\ q.W = r.W /\ q.L = r.L /\ q.W_PCT = r.W_PCT
                   /\ DOMAIN q = {"index", "TEAM_ID", "SEASON_ID", "W", "L", "W_PCT"}
        /\ \A i, j \in 1..Len(ranking_table) :
               i < j =>
                 LET a == ranking_table[i]
                     b == ranking_table[j]
                 IN  \/ a.SEASON_ID > b.SEASON_ID
                     \/ a.SEASON_ID = b.SEASON_ID /\ a.W_PCT > b.W_PCT
                     \/ /\ a.SEASON_ID = b.SEASON_ID
                        /\ a.W_PCT = b.W_PCT
                        /\ a.index < b.index

C6_Witness ==
    /\ pc = "done"
    /\ Len(ranking_table) = 3
    \* the first and last rows of ranking tie and a later row goes ahead
    /\ ranking_table[1].index = 2
    /\ ranking_table[2].index = 1
    /\ ranking_table[3].index = 3
    /\ ranking_table[2].SEASON_ID = ranking_table[3].SEASON_ID
    /\ ranking_table[2].W_PCT = ranking_table[3].W_PCT
    /\ ranking_table[2].TEAM_ID # ranking_table[3].TEAM_ID

\* C9: the conference trend has one row for each (SEASON, CONFERENCE) with
\* a cleaned game of that SEASON whose home team has that CONFERENCE in
\* ranking, its value is the mean of PTS_home over those games, each game
\* counted once, and a game whose home team has no ranking row is in no
\* group.
C9_ConferenceMeanPerGame ==
    LET member(ssn, conf) ==
            {i \in 1..Len(games) :
                /\ games[i].SEASON = ssn
                /\ \E h \in 1..Len(csv.ranking) :
                      /\ csv.ranking[h].TEAM_ID = games[i].HOME_TEAM_ID
                      /\ csv.ranking[h].CONFERENCE = conf}
        home == [i \in 1..Len(games) |-> games[i].PTS_home.n]
    IN  AfterFeatures =>
          /\ {<<conf_trend[j].SEASON, conf_trend[j].CONFERENCE>> :
                  j \in 1..Len(conf_trend)}
               = {p \in Values(games, "SEASON") \X {"East", "West"} :
                      member(p[1], p[2]) # {}}
          /\ \A j \in 1..Len(conf_trend) :
               LET grp == member(conf_trend[j].SEASON, conf_trend[j].CONFERENCE)
               IN  conf_trend[j].PTS_home = Rat(SumOver(grp, home), Cardinality(grp))

\* C7 as stated: across the renders of one process no input file is read
\* more than once.
C7_ReadAtMostOnce == \A f \in Files : reads[f] <= 1

\* C7, amended: once a load_data call has returned, its result stays
\* memoized and no later render reads any file; with all five inputs in
\* place every file is read exactly once, by the first render.
C7_MemoizedNotReread ==
    /\ [][cache # {} => (reads' = reads /\ cache' = cache)]_vars
    /\ []((disk_files = Files /\ zip_members = Members /\ renders >= 1) =>
             /\ cache = {loaded_tables}
             /\ \A f \in Files : reads[f] = 1)

C7_Witness ==
    /\ renders = 2
    /\ pc = "done"
    /\ cache # {}
    /\ \A f \in Files : reads[f] = 1

InputsMissing == disk_files # Files \/ zip_members # Members

\* C8: when one of the five input files is missing, or an archive lacks its
\* CSV member, a render ends in the error of load_data before anything is
\* put on the page, and nothing is loaded or memoized.
C8_AbortBeforeAnyView ==
    InputsMissing =>
        /\ views = {}
        /\ pc \in {"start", "aborted"}
        /\ cache = {}
        /\ players = <<>> /\ teams = <<>> /\ games = <<>>
        /\ game_details = <<>> /\ ranking = <<>>
        /\ renders >= 1 => pc = "aborted"

C8_Witness ==
    /\ disk_files = Files
    /\ "ranking.csv" \notin zip_members
    /\ "games.csv" \in zip_members
    /\ pc = "aborted"
    /\ renders = 2
    /\ reads["ranking.csv.zip"] = 2
    /\ views = {}

\* C10: the in-place cleaning and feature steps of a render leave the
\* memoized result of load_data as it was first loaded: every render starts
\* its cleaning from the raw tables and ends with the derived tables of the
\* first render.
C10_CacheKeepsRawTables ==
    /\ cache # {} => (cache = first_loaded /\ cache = {loaded_tables})
    /\ pc = "clean_games" =>
           (games = csv.games /\ game_details = csv.game_details)
    /\ pc = "done" => first_derived = {derived_tables}

C10_Witness ==
    /\ renders = 2
    /\ pc = "done"
    /\ Len(games) < Len(csv.games)
    /\ Len(game_details) < Len(csv.game_details)
    /\ cache = {loaded_tables}

====
